---- MODULE Spec2Model ----
(***************************************************************************)
(* State-machine model of d20potz.py: a chat bot that keeps turn order,    *)
(* hit points and per-player card hands in a LevelDB key-value store.      *)
(*                                                                         *)
(* Strings are modelled as sequences of UTF-8 byte values, so that key     *)
(* formatting, whitespace splitting, decimal formatting/parsing and the    *)
(* lexicographic range scan are computed the way the program computes      *)
(* them.  A literal such as "card_status_" is written as its byte tuple.   *)
(***************************************************************************)
EXTENDS Integers, Sequences, FiniteSets, TLC

VARIABLES
    DB,        \* the LevelDB store: a function from byte-string keys to byte-string values
    CONFIG,    \* the D20PotzBotConfiguration read at start-up (order, spelling, hp_defaults)
    CARDS,     \* the card catalog read at start-up: directory name -> list of card ids
    last,      \* the update handled last: its input and what the handler sent / raised
    prev,      \* the input of the update handled before that one
    turnLog,   \* per chat: which command stored the order, and the indices /endturn left
    discarded, \* the (chat, player, card) a /cards discard removed and no /cards draw drew since
    tasks      \* the handler coroutines in flight, and the store when their updates arrived

vars == <<DB, CONFIG, CARDS, last, prev, turnLog, discarded, tasks>>

----------------------------------------------------------------------------
(* Bounds of the model.                                                    *)

\* longest list of names given to /setplayerlist
MaxNames == 2
\* largest value given to /hp
MaxHp == 2
\* number of cards in the catalog of the player the /cards updates address
MaxCards == 2

----------------------------------------------------------------------------
(* Byte strings.                                                           *)

Min(a, b) == IF a <= b THEN a ELSE b

Max(a, b) == IF a >= b THEN a ELSE b

\* str.lower() on ASCII bytes
LowerByte(b) == IF b >= 65 /\ b <= 90 THEN b + 32 ELSE b

Lower(s) == [i \in 1..Len(s) |-> LowerByte(s[i])]

\* the ASCII code points str.split() treats as whitespace
IsSpace(b) == b \in {9, 10, 11, 12, 13, 28, 29, 30, 31, 32}

RECURSIVE SplitFrom(_, _, _, _)
SplitFrom(s, i, cur, acc) ==
    IF i > Len(s)
    THEN IF cur = <<>> THEN acc ELSE Append(acc, cur)
    ELSE IF IsSpace(s[i])
         THEN SplitFrom(s, i + 1, <<>>, IF cur = <<>> THEN acc ELSE Append(acc, cur))
         ELSE SplitFrom(s, i + 1, Append(cur, s[i]), acc)

\* str.split() with no separator: the maximal runs of non-whitespace
Split(s) == SplitFrom(s, 1, <<>>, <<>>)

RECURSIVE Join(_, _)
\* sep.join(list)
Join(sep, list) ==
    IF list = <<>> THEN <<>>
    ELSE IF Len(list) = 1 THEN list[1]
    ELSE list[1] \o sep \o Join(sep, Tail(list))

RECURSIVE Digits(_)
Digits(n) == IF n < 10 THEN <<48 + n>> ELSE Digits(n \div 10) \o <<48 + (n % 10)>>

\* str(n) / "{}".format(n) for an int
IntToStr(n) == IF n < 0 THEN <<45>> \o Digits(-n) ELSE Digits(n)

IsDigits(s) == s # <<>> /\ \A i \in 1..Len(s) : s[i] >= 48 /\ s[i] <= 57

RECURSIVE DigitsVal(_)
DigitsVal(s) == IF s = <<>> THEN 0 ELSE 10 * DigitsVal(SubSeq(s, 1, Len(s) - 1)) + (s[Len(s)] - 48)

\* int(s) succeeds: an optional sign followed by decimal digits
IsInt(s) ==
    /\ s # <<>>
    /\ IF s[1] \in {43, 45} THEN IsDigits(Tail(s)) ELSE IsDigits(s)

\* int(s)
StrToInt(s) ==
    IF s[1] = 45 THEN 0 - DigitsVal(Tail(s))
    ELSE IF s[1] = 43 THEN DigitsVal(Tail(s))
    ELSE DigitsVal(s)

\* Python's `frag in s` for strings
Contains(frag, s) ==
    \E i \in 0..(Len(s) - Len(frag)) : SubSeq(s, i + 1, i + Len(frag)) = frag

\* a variant that finds every name in every list
InListAlways(x, list) == TRUE

\* Python's `x in list`
InList(x, list) == \E i \in 1..Len(list) : list[i] = x

\* list[i] is defined in Python for -len <= i < len
IndexOk(list, i) == i >= 0 - Len(list) /\ i < Len(list)

PyIndex(list, i) == IF i >= 0 THEN list[i + 1] ELSE list[Len(list) + i + 1]

\* bytewise lexicographic order, LevelDB's default comparator: the first byte that
\* differs decides, and a proper prefix sorts first
LexLeq(a, b) ==
    LET differ == {i \in 1..Min(Len(a), Len(b)) : a[i] # b[i]}
    IN  IF differ = {} THEN Len(a) <= Len(b)
        ELSE LET i == CHOOSE d \in differ : \A e \in differ : d <= e
             IN  a[i] < b[i]

IsPrefix(p, s) == Len(p) <= Len(s) /\ SubSeq(s, 1, Len(p)) = p

----------------------------------------------------------------------------
(* The store.                                                              *)

HasKey(db, k) == k \in DOMAIN db

\* DB.Put(k, v)
Put(db, k, v) == [x \in (DOMAIN db) \cup {k} |-> IF x = k THEN v ELSE db[x]]

\* DB.Delete(k): deleting an absent key is not an error
Delete(db, k) == [x \in (DOMAIN db) \ {k} |-> db[x]]

RECURSIVE SortKeys(_)
SortKeys(S) ==
    IF S = {} THEN <<>>
    ELSE LET m == CHOOSE k \in S : \A o \in S : LexLeq(k, o)
         IN  <<m>> \o SortKeys(S \ {m})

\* DB.RangeIter(key_from, key_to): the keys in [key_from, key_to], ascending
RangeIter(db, key_from, key_to) ==
    SortKeys({k \in DOMAIN db : LexLeq(key_from, k) /\ LexLeq(k, key_to)})

EmptyDB == [k \in {} |-> <<>>]

----------------------------------------------------------------------------
(* Key formats.                                                            *)

\* "current_player_{}".format(chat_id)
current_player_id_key(chat_id) ==
    <<99, 117, 114, 114, 101, 110, 116, 95, 112, 108, 97, 121, 101, 114, 95>>
        \o IntToStr(chat_id)

\* "player_list_{}".format(chat_id)
player_list_key(chat_id) ==
    <<112, 108, 97, 121, 101, 114, 95, 108, 105, 115, 116, 95>> \o IntToStr(chat_id)

\* "player_hp_{}_{}".format(chat_id, player_name.lower())
player_hp_key(chat_id, player_name) ==
    <<112, 108, 97, 121, 101, 114, 95, 104, 112, 95>>
        \o IntToStr(chat_id) \o <<95>> \o Lower(player_name)

\* "player_max_hp_{}_{}".format(chat_id, player_name.lower())
player_max_hp_key(chat_id, player_name) ==
    <<112, 108, 97, 121, 101, 114, 95, 109, 97, 120, 95, 104, 112, 95>>
        \o IntToStr(chat_id) \o <<95>> \o Lower(player_name)

\* f"card_status_{chat_id}_{player_id}_"
card_key_prefix(chat_id, player_id) ==
    <<99, 97, 114, 100, 95, 115, 116, 97, 116, 117, 115, 95>>
        \o IntToStr(chat_id) \o <<95>> \o player_id \o <<95>>

\* f"card_status_{chat_id}_{player_id}_{card_id}"
card_key(chat_id, player_id, card_id) == card_key_prefix(chat_id, player_id) \o card_id

----------------------------------------------------------------------------
(* What a handler leaves behind: the store, the messages it sent through   *)
(* context.bot in order, and whether an exception left the handler.        *)
(* Every argument of a message is a list of byte strings (a single string  *)
(* is a list of one).                                                      *)

Msg(kind, msg, args) == [kind |-> kind, msg |-> msg, args |-> args]

Text(msg, args) == Msg("text", msg, args)

Done(db, replies) == [db |-> db, replies |-> replies, raised |-> FALSE]

Raise(db, replies) == [db |-> db, replies |-> replies, raised |-> TRUE]

----------------------------------------------------------------------------
(* GameState: turn order.                                                  *)

\* DB.Get(player_list_key).decode("utf-8").split()
player_list(db, chat_id) == Split(db[player_list_key(chat_id)])

getCurrentPlayerId(db, chat_id) == StrToInt(db[current_player_id_key(chat_id)])

getPlayerById(db, chat_id, player_id) == PyIndex(player_list(db, chat_id), player_id)

\* a variant that stops at the last player instead of wrapping round
getNextPlayerIdNoWrap(db, chat_id) ==
    Min(getCurrentPlayerId(db, chat_id) + 1, Len(player_list(db, chat_id)) - 1)

\* a variant that skips a player: it steps by two
getNextPlayerIdSkip(db, chat_id) ==
    (getCurrentPlayerId(db, chat_id) + 2) % Len(player_list(db, chat_id))

getNextPlayerId(db, chat_id) ==
    (getCurrentPlayerId(db, chat_id) + 1) % Len(player_list(db, chat_id))

setCurrentPlayerId(db, chat_id, player_id) ==
    Put(db, current_player_id_key(chat_id), IntToStr(player_id))

\* a variant that resets the index only when none is stored yet
setPlayerOrderKeepIndex(db, chat_id, names) ==
    IF HasKey(db, current_player_id_key(chat_id))
    THEN Put(db, player_list_key(chat_id), Join(<<32>>, names))
    ELSE setCurrentPlayerId(Put(db, player_list_key(chat_id), Join(<<32>>, names)), chat_id, 0)

setPlayerOrder(db, chat_id, names) ==
    setCurrentPlayerId(Put(db, player_list_key(chat_id), Join(<<32>>, names)), chat_id, 0)

setDefaultPlayerOrder(db, cfg, chat_id) ==
    setPlayerOrder(db, chat_id, Split(Lower(cfg.order)))

getSpelling(cfg, hero_name) ==
    LET name == Lower(hero_name)
        hits == {i \in 1..Len(cfg.spelling) : cfg.spelling[i].hero = name}
    IN  IF hits = {} THEN name
        ELSE cfg.spelling[CHOOSE i \in hits : \A j \in hits : i <= j].spelling

\* the reads of lines 201-203 / 224-226 succeed: both keys exist and the index is in range
CurrentPlayerReadable(db, chat_id) ==
    /\ HasKey(db, current_player_id_key(chat_id))
    /\ HasKey(db, player_list_key(chat_id))
    /\ IndexOk(player_list(db, chat_id), getCurrentPlayerId(db, chat_id))

----------------------------------------------------------------------------
(* GameState: hit points.                                                  *)

getPlayerHp(db, chat_id, player_name) == StrToInt(db[player_hp_key(chat_id, player_name)])

getPlayerMaxHp(db, chat_id, player_name) ==
    StrToInt(db[player_max_hp_key(chat_id, player_name)])

\* hp is an int from the /hp handler, stored as str(hp)
setPlayerHp(db, chat_id, player_name, hp) ==
    Put(db, player_hp_key(chat_id, player_name), IntToStr(hp))

setPlayerMaxHp(db, chat_id, player_name, max_hp) ==
    Put(db, player_max_hp_key(chat_id, player_name), IntToStr(max_hp))

RECURSIVE setDefaultHpsFrom(_, _, _)
\* hp is the configuration's string, and str(hp) of a string is the string
setDefaultHpsFrom(db, chat_id, defaults) ==
    IF defaults = <<>> THEN db
    ELSE LET d   == Head(defaults)
             db1 == Put(db, player_hp_key(chat_id, Lower(d.name)), d.hp)
             db2 == Put(db1, player_max_hp_key(chat_id, Lower(d.name)), d.hp)
         IN  setDefaultHpsFrom(db2, chat_id, Tail(defaults))

setDefaultHps(db, cfg, chat_id) == setDefaultHpsFrom(db, chat_id, cfg.hp_defaults)

----------------------------------------------------------------------------
(* Turn handlers.                                                          *)

setDefaults(db, cfg, chat_id) ==
    Done(setDefaultHps(setDefaultPlayerOrder(db, cfg, chat_id), cfg, chat_id),
         <<Text("Defaults set.", <<>>)>>)

endTurn(db, cfg, chat_id) ==
    IF ~CurrentPlayerReadable(db, chat_id) THEN Raise(db, <<>>)
    ELSE LET current_player == getPlayerById(db, chat_id, getCurrentPlayerId(db, chat_id))
             nextPlayerId   == getNextPlayerId(db, chat_id)
             db1            == setCurrentPlayerId(db, chat_id, nextPlayerId)
             nextPlayer     == getPlayerById(db1, chat_id, nextPlayerId)
         IN  Done(db1, <<Text("{}'s turn ended. It is now {}'s turn.",
                              << <<getSpelling(cfg, current_player)>>,
                                 <<getSpelling(cfg, nextPlayer)>> >>)>>)

\* update.message.text.lower().split()[1:]
setPlayerList(db, chat_id, text) ==
    Done(setPlayerOrder(db, chat_id, Tail(Split(Lower(text)))),
         <<Text("Player list set.", <<>>)>>)

getCurrentPlayer(db, cfg, chat_id) ==
    IF ~CurrentPlayerReadable(db, chat_id) THEN Raise(db, <<>>)
    ELSE LET current_player == getPlayerById(db, chat_id, getCurrentPlayerId(db, chat_id))
         IN  Done(db, <<Text("It is {}'s turn.", << <<getSpelling(cfg, current_player)>> >>)>>)

----------------------------------------------------------------------------
(* The /hp handler.                                                        *)

\* CONFIG.order.lower().split(): the player roster
roster(cfg) == Split(Lower(cfg.order))

\* getPlayerHp / getPlayerMaxHp return: the key exists and int() accepts its value
HpReadable(db, chat_id, player_name) ==
    /\ HasKey(db, player_hp_key(chat_id, player_name))
    /\ IsInt(db[player_hp_key(chat_id, player_name)])

MaxHpReadable(db, chat_id, player_name) ==
    /\ HasKey(db, player_max_hp_key(chat_id, player_name))
    /\ IsInt(db[player_max_hp_key(chat_id, player_name)])

\* a variant that forgets the upper clamp
addHpNoClamp(cur, hp, max_hp) == cur + hp

\* min(getPlayerHp(...) + hp, max_hp)
addHp(cur, hp, max_hp) == Min(cur + hp, max_hp)

\* a variant that forgets the lower clamp
subHpNoFloor(cur, hp) == cur - hp

\* max(getPlayerHp(...) - hp, 0)
subHp(cur, hp) == Max(cur - hp, 0)

\* a variant in which the missing record propagates out of the handler
NoHpSetPropagates(db, player_name) == Raise(db, <<>>)

NoHpSet(db, player_name) ==
    Done(db, <<Text("{} does not have hp set.", << <<player_name>> >>)>>)

HpSetTo(db, cfg, player_name, hp) ==
    Done(db, <<Text("{}'s HP set to {}.",
                    << <<getSpelling(cfg, player_name)>>, <<IntToStr(hp)>> >>)>>)

\* int(params[3]) returns
ValueGiven(params) == Len(params) >= 4 /\ IsInt(params[4])

hpGet(db, cfg, chat_id, player_name) ==
    IF ~HpReadable(db, chat_id, player_name) THEN NoHpSet(db, player_name)
    ELSE Done(db, <<Text("{} has {} HP.",
                         << <<getSpelling(cfg, player_name)>>,
                            <<IntToStr(getPlayerHp(db, chat_id, player_name))>> >>)>>)

\* a variant that stores the max HP and leaves the current HP alone
hpSetMaxOnly(db, cfg, chat_id, player_name, params) ==
    IF ~ValueGiven(params) THEN Raise(db, <<>>)
    ELSE LET hp == StrToInt(params[4])
         IN  HpSetTo(setPlayerMaxHp(db, chat_id, player_name, hp), cfg, player_name, hp)

hpSet(db, cfg, chat_id, player_name, params) ==
    IF ~ValueGiven(params) THEN Raise(db, <<>>)
    ELSE LET hp == StrToInt(params[4])
         IN  HpSetTo(setPlayerMaxHp(setPlayerHp(db, chat_id, player_name, hp),
                                    chat_id, player_name, hp),
                     cfg, player_name, hp)

hpAdd(db, cfg, chat_id, player_name, params) ==
    IF ~ValueGiven(params) THEN Raise(db, <<>>)
    ELSE IF ~MaxHpReadable(db, chat_id, player_name) THEN NoHpSet(db, player_name)
    ELSE IF ~HpReadable(db, chat_id, player_name) THEN Raise(db, <<>>)
    ELSE LET newHp == addHp(getPlayerHp(db, chat_id, player_name), StrToInt(params[4]),
                            getPlayerMaxHp(db, chat_id, player_name))
         IN  HpSetTo(setPlayerHp(db, chat_id, player_name, newHp), cfg, player_name, newHp)

hpSub(db, cfg, chat_id, player_name, params) ==
    IF ~ValueGiven(params) THEN Raise(db, <<>>)
    ELSE IF ~HpReadable(db, chat_id, player_name) THEN NoHpSet(db, player_name)
    ELSE LET newHp == subHp(getPlayerHp(db, chat_id, player_name), StrToInt(params[4]))
         IN  HpSetTo(setPlayerHp(db, chat_id, player_name, newHp), cfg, player_name, newHp)

hpCommand(db, cfg, chat_id, text) ==
    LET params == Split(text) IN
    IF Len(params) < 2 THEN Raise(db, <<>>)
    ELSE LET player_name == params[2]
             subcommand  == IF Len(params) = 2 THEN <<103, 101, 116>> ELSE params[3]
         IN  IF ~InList(player_name, roster(cfg))
             THEN Done(db, <<Text("{} is not one of {}", << <<player_name>>, roster(cfg) >>)>>)
             ELSE IF subcommand = <<103, 101, 116>>                        \* "get"
             THEN hpGet(db, cfg, chat_id, player_name)
             ELSE IF subcommand \in {<<115, 101, 116>>, <<61>>}            \* "set", "="
             THEN hpSet(db, cfg, chat_id, player_name, params)
             ELSE IF subcommand \in {<<97, 100, 100>>, <<43>>}             \* "add", "+"
             THEN hpAdd(db, cfg, chat_id, player_name, params)
             ELSE IF subcommand \in {<<115, 117, 98>>, <<45>>}             \* "sub", "-"
             THEN hpSub(db, cfg, chat_id, player_name, params)
             ELSE Done(db, <<Text("Usage: /hp <player> [+|-] <hp>", <<>>)>>)

----------------------------------------------------------------------------
(* GameState: card status.                                                 *)

\* a variant that turns a card already flipped back over
setPlayerCardStatusToggle(db, chat_id, player_id, card_id, flipped) ==
    Put(db, card_key(chat_id, player_id, card_id),
        IF flipped /\ ~(HasKey(db, card_key(chat_id, player_id, card_id))
                        /\ db[card_key(chat_id, player_id, card_id)] = <<49>>)
        THEN <<49>> ELSE <<48>>)

setPlayerCardStatus(db, chat_id, player_id, card_id, flipped) ==
    Put(db, card_key(chat_id, player_id, card_id), IF flipped THEN <<49>> ELSE <<48>>)

removePlayerCardStatus(db, chat_id, player_id, card_id) ==
    Delete(db, card_key(chat_id, player_id, card_id))

\* key_to of the scan: key_prefix + "\255"; the escape is octal, U+00AD, UTF-8 C2 AD
card_key_to(chat_id, player_id) == card_key_prefix(chat_id, player_id) \o <<194, 173>>

\* str.removeprefix
RemovePrefix(s, p) == IF IsPrefix(p, s) THEN SubSeq(s, Len(p) + 1, Len(s)) ELSE s

\* flipped is "None", "True" or "False"
CardMatches(v, flipped) ==
    \/ flipped = "None"
    \/ flipped = "True" /\ v = <<49>>
    \/ flipped = "False" /\ v = <<48>>

RECURSIVE RemovePrefixes(_, _)
RemovePrefixes(keys, p) ==
    IF keys = <<>> THEN <<>>
    ELSE <<RemovePrefix(Head(keys), p)>> \o RemovePrefixes(Tail(keys), p)

getPlayerCards(db, chat_id, player_id, flipped) ==
    RemovePrefixes(SelectSeq(RangeIter(db, card_key_prefix(chat_id, player_id),
                                       card_key_to(chat_id, player_id)),
                             LAMBDA k : CardMatches(db[k], flipped)),
                   card_key_prefix(chat_id, player_id))

----------------------------------------------------------------------------
(* The /cards handler.                                                     *)

\* [c for c in cards if card_name in c]
Matching(cards, card_name) == SelectSeq(cards, LAMBDA c : Contains(card_name, c))

\* send_cards opens <cards_dir>/<player.lower()>/<card>.jpg for every card, then
\* sends one media group; a card with no such file raises out of open()
send_cards(db, replies, cards, player, list) ==
    IF \A i \in 1..Len(list) :
           Lower(player) \in DOMAIN cards /\ InList(list[i], cards[Lower(player)])
    THEN Done(db, Append(replies, Msg("media", "cards", << <<player>>, list >>)))
    ELSE Raise(db, replies)

CouldNotFindIn(db, card_name, catalog) ==
    Text("{} Could not find in {}", << <<card_name>>, catalog >>)

CouldNotFindInHand(db, chat_id, card_name, player_name) ==
    Text("Could not find {} in {}'s hand {}",
         << <<card_name>>, <<player_name>>, getPlayerCards(db, chat_id, player_name, "None") >>)

cardsAll(db, cfg, cards, chat_id, player_name) ==
    IF player_name \notin DOMAIN cards THEN Raise(db, <<>>)
    ELSE IF cards[player_name] = <<>>
    THEN Done(db, <<Text("{} has no cards.", << <<getSpelling(cfg, player_name)>> >>)>>)
    ELSE send_cards(db, <<>>, cards, player_name, cards[player_name])

cardsShow(db, cards, chat_id, player_name, params) ==
    IF Len(params) < 4 \/ player_name \notin DOMAIN cards THEN Raise(db, <<>>)
    ELSE LET card_name    == params[4]
             player_cards == Matching(cards[player_name], card_name)
         IN  IF player_cards = <<>>
             THEN Done(db, <<CouldNotFindIn(db, card_name, cards[player_name])>>)
             ELSE send_cards(db, <<>>, cards, player_name, player_cards)

cardsDraw(db, cards, chat_id, player_name, params) ==
    IF Len(params) < 4 \/ player_name \notin DOMAIN cards THEN Raise(db, <<>>)
    ELSE LET card_name    == params[4]
             player_cards == Matching(cards[player_name], card_name)
         IN  IF player_cards = <<>>
             THEN Raise(db, <<CouldNotFindIn(db, card_name, cards[player_name])>>)
             ELSE Done(setPlayerCardStatus(db, chat_id, player_name, player_cards[1], FALSE),
                       <<Text("{} drew {}", << <<player_name>>, <<player_cards[1]>> >>)>>)

cardsDiscard(db, chat_id, player_name, params) ==
    IF Len(params) < 4 THEN Raise(db, <<>>)
    ELSE LET card_name       == params[4]
             all_cards       == getPlayerCards(db, chat_id, player_name, "None")
             discarded_cards == Matching(all_cards, card_name)
         IN  IF Len(discarded_cards) # 1
             THEN Done(db, <<CouldNotFindInHand(db, chat_id, card_name, player_name)>>)
             ELSE Done(removePlayerCardStatus(db, chat_id, player_name, discarded_cards[1]),
                       <<Text("{} discarded {}",
                              << <<player_name>>, <<discarded_cards[1]>> >>)>>)

cardsHand(db, cards, chat_id, player_name) ==
    LET active_cards == getPlayerCards(db, chat_id, player_name, "False")
        sent         == send_cards(db, <<>>, cards, player_name, active_cards)
    IN  IF sent.raised THEN sent
        ELSE Done(db, Append(sent.replies,
                             Text("{}'s flipped cards {}",
                                  << <<player_name>>,
                                     getPlayerCards(db, chat_id, player_name, "True") >>)))

cardsFlip(db, chat_id, player_name, params) ==
    IF Len(params) < 4 THEN Raise(db, <<>>)
    ELSE LET card_name         == params[4]
             not_flipped_cards ==
                 Matching(getPlayerCards(db, chat_id, player_name, "False"), card_name)
             flipped_cards     ==
                 Matching(getPlayerCards(db, chat_id, player_name, "True"), card_name)
         IN  IF not_flipped_cards = <<>> /\ flipped_cards = <<>>
             THEN Done(db, <<CouldNotFindInHand(db, chat_id, card_name, player_name)>>)
             ELSE IF not_flipped_cards # <<>>
             THEN Done(setPlayerCardStatus(db, chat_id, player_name,
                                           not_flipped_cards[1], TRUE),
                       <<Text("{} flipped {}",
                              << <<player_name>>, <<not_flipped_cards[1]>> >>)>>)
             ELSE Done(setPlayerCardStatus(db, chat_id, player_name, flipped_cards[1], FALSE),
                       <<Text("{} unflipped {}",
                              << <<player_name>>, <<flipped_cards[1]>> >>)>>)

\* the names of the six subcommands, as the last branch lists them
SubCommandNames ==
    << <<97, 108, 108>>, <<115, 104, 111, 119>>, <<100, 114, 97, 119>>,
       <<100, 105, 115, 99, 97, 114, 100>>, <<104, 97, 110, 100>>, <<102, 108, 105, 112>> >>

cardsCommand(db, cfg, cards, chat_id, text) ==
    LET params == Split(text) IN
    IF Len(params) < 2
    THEN Done(db, <<Text("Usage: /cards <player> <subcommand>", <<>>)>>)
    ELSE LET player_name == params[2]
             sub_command == IF Len(params) = 2 THEN SubCommandNames[5] ELSE params[3]
         IN  IF ~InList(player_name, roster(cfg))
             THEN Done(db, <<Text("{} is not one of {}", << <<player_name>>, roster(cfg) >>)>>)
             ELSE IF sub_command = SubCommandNames[1]
             THEN cardsAll(db, cfg, cards, chat_id, player_name)
             ELSE IF sub_command = SubCommandNames[2]
             THEN cardsShow(db, cards, chat_id, player_name, params)
             ELSE IF sub_command = SubCommandNames[3]
             THEN cardsDraw(db, cards, chat_id, player_name, params)
             ELSE IF sub_command = SubCommandNames[4]
             THEN cardsDiscard(db, chat_id, player_name, params)
             ELSE IF sub_command = SubCommandNames[5]
             THEN cardsHand(db, cards, chat_id, player_name)
             ELSE IF sub_command = SubCommandNames[6]
             THEN cardsFlip(db, chat_id, player_name, params)
             ELSE Done(db, <<Text("{} is not one of {}", << <<sub_command>>, SubCommandNames >>)>>)

----------------------------------------------------------------------------
(* Start-up: the configurations and inputs the model explores.             *)

alice == <<97, 108, 105, 99, 101>>

bob == <<98, 111, 98>>

\* [general] player_list = Alice bob; [spelling] alice = Al; [hp] alice = 2, bob = 1
CfgPlain ==
    [order       |-> <<65, 108, 105, 99, 101, 32, 98, 111, 98>>,
     spelling    |-> << [hero |-> alice, spelling |-> <<65, 108>>] >>,
     hp_defaults |-> << [name |-> alice, hp |-> <<50>>], [name |-> bob, hp |-> <<49>>] >>]

\* a configuration without player_list: cp.get falls back to ""
CfgNoOrder == [order |-> <<>>, spelling |-> <<>>, hp_defaults |-> <<>>]

NoCards == [d \in {} |-> <<>>]

\* the chat the explored updates come from (update.effective_chat.id)
Chats == {12}

NoInput == [cmd |-> "none", chat |-> 0, text |-> <<>>, raised |-> FALSE]

NoTurns == [by |-> "none", prior |-> -1, turns |-> 0, idxs |-> <<>>]

\* no handler is in flight
NoTasks == [from |-> EmptyDB, run |-> <<>>]

\* a start-up is the configuration and the catalog the process read
InitWith(startups) ==
    /\ DB = EmptyDB
    /\ \E st \in startups : CONFIG = st[1] /\ CARDS = st[2]
    /\ last = [cmd |-> "none", chat |-> 0, text |-> <<>>, replies |-> <<>>, raised |-> FALSE]
    /\ prev = NoInput
    /\ turnLog = [c \in Chats |-> NoTurns]
    /\ discarded = {}
    /\ tasks = NoTasks

----------------------------------------------------------------------------
(* One update handled to completion.                                       *)

\* the handler's result becomes the store; last and prev record the update
Handled(cmd, chat_id, text, res) ==
    /\ DB' = res.db
    /\ last' = [cmd |-> cmd, chat |-> chat_id, text |-> text,
                replies |-> res.replies, raised |-> res.raised]
    /\ prev' = [cmd |-> last.cmd, chat |-> last.chat, text |-> last.text,
                raised |-> last.raised]
    /\ UNCHANGED <<CONFIG, CARDS, tasks>>

LastN(s, n) == IF Len(s) <= n THEN s ELSE SubSeq(s, Len(s) - n + 1, Len(s))

\* the order of chat_id was stored again: the log starts over at the stored index
\* and keeps the index that was stored before (-1 when there was none)
LogOrderSet(cmd, chat_id) ==
    turnLog' = [turnLog EXCEPT ![chat_id] =
                    [by    |-> cmd,
                     prior |-> IF HasKey(DB, current_player_id_key(chat_id))
                               THEN getCurrentPlayerId(DB, chat_id) ELSE -1,
                     turns |-> 0,
                     idxs  |-> <<getCurrentPlayerId(DB', chat_id)>>]]

\* /endturn returned: the log gains the index it stored (one more than a full round is kept)
LogTurn(chat_id) ==
    LET n == Len(player_list(DB', chat_id))
    IN  turnLog' = [turnLog EXCEPT ![chat_id] =
                        [by    |-> @.by,
                         prior |-> @.prior,
                         turns |-> Min(@.turns + 1, n + 1),
                         idxs  |-> LastN(Append(@.idxs, getCurrentPlayerId(DB', chat_id)),
                                         n + 1)]]

\* the names an update may carry, as typed
NameTokens == {alice, <<66, 111, 98>>}

RECURSIVE NameLists(_)
NameLists(n) ==
    IF n = 0 THEN {<<>>}
    ELSE NameLists(n - 1) \cup
         {Append(l, t) : l \in {x \in NameLists(n - 1) : Len(x) = n - 1}, t \in NameTokens}

\* "/setplayerlist" followed by the names, each after a separator
SetPlayerListText(names, sep) ==
    <<47, 115, 101, 116, 112, 108, 97, 121, 101, 114, 108, 105, 115, 116>>
        \o sep \o Join(sep, names)

SetPlayerList(chat_id) ==
    \E names \in NameLists(MaxNames), sep \in {<<32>>, <<9, 32>>} :
        LET text == SetPlayerListText(names, sep)
        IN  /\ Handled("setplayerlist", chat_id, text, setPlayerList(DB, chat_id, text))
            /\ LogOrderSet("setplayerlist", chat_id)
            /\ UNCHANGED discarded

SetDefaults(chat_id) ==
    /\ Handled("defaults", chat_id, <<47, 100, 101, 102, 97, 117, 108, 116, 115>>,
               setDefaults(DB, CONFIG, chat_id))
    /\ LogOrderSet("defaults", chat_id)
    /\ UNCHANGED discarded

EndTurn(chat_id) ==
    LET res == endTurn(DB, CONFIG, chat_id)
    IN  /\ Handled("endturn", chat_id, <<47, 101, 110, 100, 116, 117, 114, 110>>, res)
        /\ IF res.raised THEN UNCHANGED turnLog ELSE LogTurn(chat_id)
        /\ UNCHANGED discarded

GetCurrentPlayer(chat_id) ==
    /\ Handled("currentplayer", chat_id,
               <<47, 99, 117, 114, 114, 101, 110, 116, 112, 108, 97, 121, 101, 114>>,
               getCurrentPlayer(DB, CONFIG, chat_id))
    /\ UNCHANGED <<turnLog, discarded>>

InitTurn == InitWith({<<CfgPlain, NoCards>>, <<CfgNoOrder, NoCards>>})

NextTurn ==
    \E chat_id \in Chats :
        \/ SetPlayerList(chat_id)
        \/ SetDefaults(chat_id)
        \/ EndTurn(chat_id)
        \/ GetCurrentPlayer(chat_id)

\* the turn commands: /setplayerlist, /defaults, /endturn, /currentplayer
SpecTurn == InitTurn /\ [][NextTurn]_vars

----------------------------------------------------------------------------
(* Claims about the turn commands, checked under SpecTurn.                 *)

TurnStateExists(chat_id) ==
    HasKey(DB, player_list_key(chat_id)) /\ HasKey(DB, current_player_id_key(chat_id))

IndexInRange(chat_id) ==
    /\ Len(player_list(DB, chat_id)) >= 1
    /\ getCurrentPlayerId(DB, chat_id) >= 0
    /\ getCurrentPlayerId(DB, chat_id) < Len(player_list(DB, chat_id))

\* C2: whenever a chat's turn state exists, its PlayerOrder is non-empty and the
\* current-turn index satisfies 0 <= index < length(PlayerOrder).
C2_TurnStateWellFormed ==
    \A chat_id \in Chats : TurnStateExists(chat_id) => IndexInRange(chat_id)

\* C3: once /endturn has returned n = length(PlayerOrder) times in a row since the
\* order was stored, the current-turn index is the one the n turns started from.
C3_FullRoundReturns ==
    \A chat_id \in Chats :
        LET log == turnLog[chat_id] IN
        (TurnStateExists(chat_id) /\ log.idxs # <<>>) =>
            LET n == Len(player_list(DB, chat_id)) IN
            /\ log.idxs[Len(log.idxs)] = getCurrentPlayerId(DB, chat_id)
            /\ (n >= 1 /\ Len(log.idxs) = n + 1) => log.idxs[1] = log.idxs[n + 1]

\* a full round of an order of two or more names that started from a non-zero index
C3_Witness ==
    \E chat_id \in Chats :
        /\ last.cmd = "endturn" /\ ~last.raised /\ last.chat = chat_id
        /\ Len(player_list(DB, chat_id)) >= 2
        /\ Len(turnLog[chat_id].idxs) = Len(player_list(DB, chat_id)) + 1
        /\ turnLog[chat_id].idxs[1] # 0

\* C6: after /setplayerlist the stored order reads back as exactly the given names
\* (lower-cased) in the given order, the current-turn index is 0 whatever it was
\* before, and the current player is the first name.
C6_SetPlayerOrderRoundTrip ==
    last.cmd = "setplayerlist" =>
        \A names \in NameLists(MaxNames), sep \in {<<32>>, <<9, 32>>} :
            last.text = SetPlayerListText(names, sep) =>
                /\ ~last.raised
                /\ TurnStateExists(last.chat)
                /\ player_list(DB, last.chat) = [i \in 1..Len(names) |-> Lower(names[i])]
                /\ getCurrentPlayerId(DB, last.chat) = 0
                /\ names # <<>> =>
                       getPlayerById(DB, last.chat, getCurrentPlayerId(DB, last.chat))
                           = Lower(names[1])

\* an order of two names, one typed in upper case, replaced an order whose index was 1
C6_Witness ==
    /\ last.cmd = "setplayerlist"
    /\ turnLog[last.chat].prior = 1
    /\ player_list(DB, last.chat) = <<bob, alice>>
    /\ getCurrentPlayerId(DB, last.chat) = 0

TurnEnded(cfg, ended, now) ==
    <<Text("{}'s turn ended. It is now {}'s turn.",
           << <<getSpelling(cfg, ended)>>, <<getSpelling(cfg, now)>> >>)>>

\* C10: /endturn in a chat whose index i is in range reports the player at i as the
\* one whose turn ended and the player at (i+1) mod n as the current one and stores
\* that index; /currentplayer right after reports that same player; with roster
\* [alice, bob], the first two /endturn after /defaults report alice->bob, bob->alice.
C10_EndTurnReports ==
    LET chat_id == last.chat
        log     == turnLog[chat_id]
        k       == Len(log.idxs)
        lst     == player_list(DB, chat_id)
    IN  /\ (last.cmd = "endturn" /\ TurnStateExists(chat_id) /\ IndexInRange(chat_id)) =>
               /\ ~last.raised
               /\ k >= 2
               /\ log.idxs[k] = (log.idxs[k - 1] + 1) % Len(lst)
               /\ getCurrentPlayerId(DB, chat_id) = log.idxs[k]
               /\ last.replies = TurnEnded(CONFIG, lst[log.idxs[k - 1] + 1], lst[log.idxs[k] + 1])
        /\ (last.cmd = "currentplayer" /\ prev.cmd = "endturn" /\ prev.chat = chat_id
                /\ ~prev.raised) =>
               /\ ~last.raised
               /\ last.replies =
                      <<Text("It is {}'s turn.", << <<getSpelling(CONFIG, lst[log.idxs[k] + 1])>> >>)>>
        /\ (last.cmd = "endturn" /\ log.by = "defaults" /\ roster(CONFIG) = <<alice, bob>>) =>
               /\ log.turns = 1 => last.replies = TurnEnded(CONFIG, alice, bob)
               /\ log.turns = 2 => last.replies = TurnEnded(CONFIG, bob, alice)

\* /defaults, /endturn, /endturn, /currentplayer with roster [alice, bob]
C10_Witness ==
    /\ last.cmd = "currentplayer" /\ prev.cmd = "endturn" /\ ~prev.raised
    /\ turnLog[last.chat].by = "defaults" /\ turnLog[last.chat].turns = 2
    /\ roster(CONFIG) = <<alice, bob>>
    /\ last.replies = <<Text("It is {}'s turn.", << <<getSpelling(CONFIG, alice)>> >>)>>

----------------------------------------------------------------------------
(* The /hp and /defaults commands.                                         *)

\* the values an /hp update may carry: a negative one, zero and the positive ones
Values == (0 - 1)..MaxHp

\* "/hp" followed by the given tokens
HpText(tokens) == Join(<<32>>, << <<47, 104, 112>> >> \o tokens)

\* the /hp updates explored: every subcommand with every value for alice, the
\* one-character subcommand names with one value, and a read of bob
HpTexts ==
    {HpText(<<alice>>), HpText(<<bob>>)}
        \cup {HpText(<<alice, sub, IntToStr(v)>>) :
                 sub \in {<<115, 101, 116>>, <<97, 100, 100>>, <<115, 117, 98>>}, v \in Values}
        \cup {HpText(<<alice, sub, IntToStr(1)>>) : sub \in {<<61>>, <<43>>, <<45>>}}

\* exploration stops one point beyond the values given: hp add and hp sub with a
\* negative value move the stored HP without limit
HpExplored(db, chat_id) ==
    \A player_name \in {alice, bob} :
        HpReadable(db, chat_id, player_name) =>
            /\ getPlayerHp(db, chat_id, player_name) >= 0 - 2
            /\ getPlayerHp(db, chat_id, player_name) <= MaxHp + 1

HpCommand(chat_id) ==
    \E text \in HpTexts :
        LET res == hpCommand(DB, CONFIG, chat_id, text)
        IN  /\ HpExplored(res.db, chat_id)
            /\ Handled("hp", chat_id, text, res)
            /\ UNCHANGED <<turnLog, discarded>>

InitHp == InitWith({<<CfgPlain, NoCards>>})

NextHp ==
    \E chat_id \in Chats :
        \/ HpCommand(chat_id)
        \/ SetDefaults(chat_id)

\* the hit-point commands: /hp and /defaults
SpecHp == InitHp /\ [][NextHp]_vars

----------------------------------------------------------------------------
(* Claims about hit points, checked under SpecHp.                          *)

\* C1: every (chat, player) that has HP set satisfies 0 <= current HP <= max HP.
C1_HpWithinMax ==
    \A chat_id \in Chats, player_name \in {alice, bob} :
        (HpReadable(DB, chat_id, player_name) /\ MaxHpReadable(DB, chat_id, player_name)) =>
            /\ 0 <= getPlayerHp(DB, chat_id, player_name)
            /\ getPlayerHp(DB, chat_id, player_name)
                   <= getPlayerMaxHp(DB, chat_id, player_name)

\* the update l is "/hp <player> <sub> <value>" for a roster player and one of subs
IsHp(l, subs) ==
    /\ l.cmd = "hp"
    /\ Len(Split(l.text)) >= 4
    /\ InList(Split(l.text)[2], roster(CONFIG))
    /\ Split(l.text)[3] \in subs
    /\ IsInt(Split(l.text)[4])

HpPlayer(l) == Split(l.text)[2]

HpValue(l) == StrToInt(Split(l.text)[4])

SetNames == {<<115, 101, 116>>, <<61>>}

AddNames == {<<97, 100, 100>>, <<43>>}

SubNames == {<<115, 117, 98>>, <<45>>}

\* the step handles "/hp p add|sub v" right after "/hp p set h" in the same chat
SetThen(subs) ==
    /\ IsHp(last, SetNames) /\ HpValue(last) >= 0
    /\ IsHp(last', subs)
    /\ last'.chat = last.chat /\ HpPlayer(last') = HpPlayer(last)

\* C4: /hp p set h (h >= 0) followed by /hp p add a (a >= 0) leaves the stored
\* current HP equal to h, whatever was stored before the set.
C4_SetThenAddClamps ==
    [][(SetThen(AddNames) /\ HpValue(last') >= 0) =>
           /\ ~last'.raised
           /\ getPlayerHp(DB', last.chat, HpPlayer(last)) = HpValue(last)
           /\ last'.replies = HpSetTo(DB', CONFIG, HpPlayer(last), HpValue(last)).replies]_vars

\* set h > 0 then add a > 0 has been handled
C4_Witness ==
    /\ IsHp(last, AddNames) /\ HpValue(last) >= 1 /\ ~last.raised
    /\ prev.cmd = "hp" /\ prev.chat = last.chat /\ ~prev.raised
    /\ \E h \in 1..MaxHp :
           /\ prev.text = HpText(<<HpPlayer(last), <<115, 101, 116>>, IntToStr(h)>>)
           /\ getPlayerHp(DB, last.chat, HpPlayer(last)) = h

\* C5: /hp p set h (h >= 0) followed by /hp p sub a with a >= h leaves the stored
\* current HP 0 and the stored max HP h.
C5_SetThenSubFloors ==
    [][(SetThen(SubNames) /\ HpValue(last') >= HpValue(last)) =>
           /\ ~last'.raised
           /\ getPlayerHp(DB', last.chat, HpPlayer(last)) = 0
           /\ getPlayerMaxHp(DB', last.chat, HpPlayer(last)) = HpValue(last)]_vars

\* set h > 0 then sub a > h has been handled
C5_Witness ==
    /\ IsHp(last, SubNames) /\ ~last.raised
    /\ prev.cmd = "hp" /\ prev.chat = last.chat /\ ~prev.raised
    /\ \E h \in 1..MaxHp :
           /\ HpValue(last) > h
           /\ prev.text = HpText(<<HpPlayer(last), <<115, 101, 116>>, IntToStr(h)>>)
           /\ getPlayerHp(DB, last.chat, HpPlayer(last)) = 0
           /\ getPlayerMaxHp(DB, last.chat, HpPlayer(last)) = h

----------------------------------------------------------------------------
(* The /cards command.                                                     *)

\* the card files of alice's directory, in directory-listing order
AllCards ==
    << <<122, 97, 112, 50>>, <<122, 97, 112, 49>>, <<105, 99, 101>>, <<104, 101, 120>>,
       <<104, 97, 116>> >>                         \* zap2 zap1 ice hex hat

\* cards/alice/ holds the first MaxCards of them
CatalogPlain == (alice :> SubSeq(AllCards, 1, MaxCards))

\* cards/alice/ holds "éa.jpg" (bytes C3 A9 61) and "ab.jpg"
CatalogAccent == (alice :> << <<195, 169, 97>>, <<97, 98>> >>)

bob_x == <<98, 111, 98, 95, 120>>

\* [general] player_list = bob bob_x
CfgUnderscore ==
    [order       |-> bob \o <<32>> \o bob_x,
     spelling    |-> <<>>,
     hp_defaults |-> <<>>]

\* cards/bob/ holds "x_c.jpg", cards/bob_x/ holds "c.jpg"
CatalogUnderscore == (bob :> << <<120, 95, 99>> >>) @@ (bob_x :> << <<99>> >>)

\* the card-name fragments the explored updates carry
Fragments(cards) ==
    IF cards = CatalogAccent THEN {<<97>>, <<98>>}                        \* a b
    ELSE IF cards = CatalogUnderscore THEN {<<99>>, <<113>>}              \* c q
    ELSE {<<122, 97, 112>>, <<49>>, <<101>>, <<113>>}                     \* zap 1 e q

\* "/cards" followed by the given tokens
CardsText(tokens) == Join(<<32>>, << <<47, 99, 97, 114, 100, 115>> >> \o tokens)

\* the roster players that have a card directory
CardPlayers(cfg, cards) ==
    {roster(cfg)[i] : i \in 1..Len(roster(cfg))} \cap DOMAIN cards

\* the /cards updates explored: the hand, the catalog, and show, draw, discard and
\* flip with every fragment
CardsTexts(cfg, cards) ==
    {CardsText(<<player>>) : player \in CardPlayers(cfg, cards)}
        \cup {CardsText(<<player, SubCommandNames[1]>>) : player \in CardPlayers(cfg, cards)}
        \cup {CardsText(<<player, SubCommandNames[i], f>>) :
                 player \in CardPlayers(cfg, cards), i \in {2, 3, 4, 6}, f \in Fragments(cards)}

\* "<player> discarded <card>" adds the card to discarded, "<player> drew <card>"
\* takes it out
DiscardedAfter(chat_id, res) ==
    IF res.raised \/ Len(res.replies) # 1 THEN discarded
    ELSE IF res.replies[1].msg = "{} discarded {}"
    THEN discarded \cup {[chat |-> chat_id, player |-> res.replies[1].args[1][1],
                          card |-> res.replies[1].args[2][1]]}
    ELSE IF res.replies[1].msg = "{} drew {}"
    THEN discarded \ {[chat |-> chat_id, player |-> res.replies[1].args[1][1],
                       card |-> res.replies[1].args[2][1]]}
    ELSE discarded

CardsCommand(chat_id) ==
    \E text \in CardsTexts(CONFIG, CARDS) :
        LET res == cardsCommand(DB, CONFIG, CARDS, chat_id, text)
        IN  /\ Handled("cards", chat_id, text, res)
            /\ discarded' = DiscardedAfter(chat_id, res)
            /\ UNCHANGED turnLog

InitCards ==
    InitWith({<<CfgPlain, CatalogPlain>>, <<CfgPlain, CatalogAccent>>,
              <<CfgUnderscore, CatalogUnderscore>>})

NextCards == \E chat_id \in Chats : CardsCommand(chat_id)

\* the /cards command
SpecCards == InitCards /\ [][NextCards]_vars

----------------------------------------------------------------------------
(* Claims about the /cards command, checked under SpecCards.               *)

Filters == {"None", "True", "False"}

\* the update l is "/cards <player> <sub> <fragment>" with the i-th subcommand name
IsCards(l, i) ==
    /\ l.cmd = "cards"
    /\ Len(Split(l.text)) >= 4
    /\ Split(l.text)[3] = SubCommandNames[i]

CardsPlayer(l) == Split(l.text)[2]

CardsFragment(l) == Split(l.text)[4]

Drew(player, card) == <<Text("{} drew {}", << <<player>>, <<card>> >>)>>

Discarded(player, card) == <<Text("{} discarded {}", << <<player>>, <<card>> >>)>>

\* C8: a card that /cards p discard removed is in no listing of p, under any filter,
\* until /cards p draw draws it again; and a second discard of the same fragment,
\* when no in-hand card contains it, replies not-found, raises nothing and leaves
\* the store as it was.
C8_DiscardedStaysOut ==
    /\ [](\A d \in discarded : \A f \in Filters :
              ~InList(d.card, getPlayerCards(DB, d.chat, d.player, f)))
    /\ [][(/\ IsCards(last, 4) /\ last.replies[1].msg = "{} discarded {}"
           /\ IsCards(last', 4) /\ last'.text = last.text /\ last'.chat = last.chat
           /\ Matching(getPlayerCards(DB, last.chat, CardsPlayer(last), "None"),
                       CardsFragment(last)) = <<>>) =>
              /\ ~last'.raised
              /\ DB' = DB
              /\ last'.replies = <<CouldNotFindInHand(DB, last.chat, CardsFragment(last),
                                                      CardsPlayer(last))>>]_vars

\* C9: with no in-hand card containing f, /cards p draw f with f in two or more
\* catalog cards stores exactly one record, the first match in catalog order, as
\* unflipped; /cards p discard f right after finds that one card and removes it,
\* which leaves the hand as it was before the draw.
C9_DrawFirstThenDiscard ==
    /\ [][(/\ IsCards(last', 3)
           /\ CardsPlayer(last') \in CardPlayers(CONFIG, CARDS)
           /\ Len(Matching(CARDS[CardsPlayer(last')], CardsFragment(last'))) >= 2
           /\ Matching(getPlayerCards(DB, last'.chat, CardsPlayer(last'), "None"),
                       CardsFragment(last')) = <<>>) =>
              LET first == Matching(CARDS[CardsPlayer(last')], CardsFragment(last'))[1]
              IN  /\ ~last'.raised
                  /\ last'.replies = Drew(CardsPlayer(last'), first)
                  /\ DB' = Put(DB, card_key(last'.chat, CardsPlayer(last'), first), <<48>>)]_vars
    /\ [][(/\ IsCards(last, 3) /\ ~last.raised /\ last.replies[1].msg = "{} drew {}"
           /\ CardsPlayer(last) \in CardPlayers(CONFIG, CARDS)
           /\ Len(Matching(CARDS[CardsPlayer(last)], CardsFragment(last))) >= 2
           /\ \A i \in 1..Len(getPlayerCards(DB, last.chat, CardsPlayer(last), "None")) :
                  LET c == getPlayerCards(DB, last.chat, CardsPlayer(last), "None")[i]
                  IN  Contains(CardsFragment(last), c) => c = last.replies[1].args[2][1]
           /\ IsCards(last', 4) /\ last'.chat = last.chat
           /\ CardsPlayer(last') = CardsPlayer(last)
           /\ CardsFragment(last') = CardsFragment(last)) =>
              LET drawn == last.replies[1].args[2][1]
              IN  /\ ~last'.raised
                  /\ last'.replies = Discarded(CardsPlayer(last), drawn)
                  /\ DB' = Delete(DB, card_key(last.chat, CardsPlayer(last), drawn))
                  /\ ~InList(drawn, getPlayerCards(DB', last.chat, CardsPlayer(last), "None"))]_vars

\* the start-ups in which every card name sorts below the scan's upper bound and
\* no roster name followed by "_" starts another
InitCardsPlain == InitWith({<<CfgPlain, CatalogPlain>>})

SpecCardsPlain == InitCardsPlain /\ [][NextCards]_vars

----------------------------------------------------------------------------
(* The card-status operations of GameState applied on their own, to any    *)
(* player and card, on a store an earlier /defaults wrote to.              *)

StorePlayers == {alice, bob}

\* a plain card name and one whose first byte is above the scan's upper bound
StoreCards == {AllCards[1], CatalogAccent[alice][1]}

FlagText(flipped) == IF flipped THEN <<84, 114, 117, 101>> ELSE <<70, 97, 108, 115, 101>>

\* the arguments of a call, written as one line of text
CallText(tokens) == Join(<<32>>, tokens)

Called(op, chat_id, text, db) == Handled(op, chat_id, text, Done(db, <<>>))

SetPlayerCardStatus(chat_id) ==
    \E player_id \in StorePlayers, card_id \in StoreCards, flipped \in BOOLEAN :
        /\ Called("setPlayerCardStatus", chat_id,
                  CallText(<<player_id, card_id, FlagText(flipped)>>),
                  setPlayerCardStatus(DB, chat_id, player_id, card_id, flipped))
        /\ UNCHANGED <<turnLog, discarded>>

RemovePlayerCardStatus(chat_id) ==
    \E player_id \in StorePlayers, card_id \in StoreCards :
        /\ Called("removePlayerCardStatus", chat_id, CallText(<<player_id, card_id>>),
                  removePlayerCardStatus(DB, chat_id, player_id, card_id))
        /\ UNCHANGED <<turnLog, discarded>>

InitStore ==
    /\ \E chat_id \in Chats : DB = setDefaults(EmptyDB, CfgPlain, chat_id).db
    /\ CONFIG = CfgPlain
    /\ CARDS = NoCards
    /\ last = [cmd |-> "none", chat |-> 0, text |-> <<>>, replies |-> <<>>, raised |-> FALSE]
    /\ prev = NoInput
    /\ turnLog = [c \in Chats |-> NoTurns]
    /\ discarded = {}
    /\ tasks = NoTasks

NextStore ==
    \E chat_id \in Chats :
        \/ SetPlayerCardStatus(chat_id)
        \/ RemovePlayerCardStatus(chat_id)

\* setPlayerCardStatus and removePlayerCardStatus, called directly
SpecStore == InitStore /\ [][NextStore]_vars

\* C7: setPlayerCardStatus(c, p, card, True) applied right after the same call
\* leaves the store as the first call left it: the card's record is there with
\* the flag "1" and no record differs.
C7_SetFlippedTwice ==
    [][(/\ last.cmd = "setPlayerCardStatus"
        /\ Split(last.text)[3] = FlagText(TRUE)
        /\ last'.cmd = last.cmd /\ last'.chat = last.chat /\ last'.text = last.text) =>
           /\ DB' = DB
           /\ HasKey(DB', card_key(last.chat, Split(last.text)[1], Split(last.text)[2]))
           /\ DB'[card_key(last.chat, Split(last.text)[1], Split(last.text)[2])] = <<49>>]_vars

\* the same call with flipped = True has been applied twice in a row
C7_Witness ==
    /\ last.cmd = "setPlayerCardStatus" /\ prev.cmd = "setPlayerCardStatus"
    /\ prev.text = last.text /\ prev.chat = last.chat
    /\ Split(last.text)[3] = FlagText(TRUE)
    /\ DB[card_key(last.chat, Split(last.text)[1], Split(last.text)[2])] = <<49>>

----------------------------------------------------------------------------
(* Commands that cannot be carried out: a player outside the roster, a      *)
(* missing argument, a fragment no card contains, a player without a card   *)
(* directory, a chat without a player order; next to them the commands that *)
(* put something into the store for them to leave alone.                    *)

carol == <<99, 97, 114, 111, 108>>

\* "/hp": without a player, for a player outside the roster (carol, and Alice as
\* typed: the roster is lower-cased, the argument is not), without a value, for a
\* player whose HP may not be set, and one set
FailedHpTexts ==
    {HpText(<<>>)}
        \cup {HpText(<<carol>> \o rest) :
                 rest \in {<<>>, << <<115, 101, 116>>, <<49>> >>, << <<97, 100, 100>>, <<49>> >>,
                           << <<115, 117, 98>>, <<49>> >>, << <<102, 111, 111>> >>}}
        \cup {HpText(<<SubSeq(CfgPlain.order, 1, 5), <<115, 101, 116>>, <<49>> >>)}
        \cup {HpText(<<alice, sub>>) :
                 sub \in {<<115, 101, 116>>, <<97, 100, 100>>, <<115, 117, 98>>}}
        \cup {HpText(<<bob>>), HpText(<<bob, <<97, 100, 100>>, <<49>> >>),
              HpText(<<bob, <<115, 117, 98>>, <<49>> >>)}
        \cup {HpText(<<alice, <<115, 101, 116>>, <<49>> >>)}

\* "/cards": for a player outside the roster, without a fragment, with a fragment
\* no catalog card contains (q), for bob, who has no card directory, and one draw
FailedCardsTexts ==
    {CardsText(<<carol>> \o rest) :
        rest \in {<<>>, <<SubCommandNames[1]>>, <<SubCommandNames[3], <<122, 97, 112>> >>,
                  <<SubCommandNames[6], <<122, 97, 112>> >>}}
        \cup {CardsText(<<alice, SubCommandNames[i]>>) : i \in {2, 3, 4, 6}}
        \cup {CardsText(<<alice, SubCommandNames[3], f>>) : f \in {<<122, 97, 112>>, <<113>>}}
        \cup {CardsText(<<bob, SubCommandNames[1]>>),
              CardsText(<<bob, SubCommandNames[2], <<122, 97, 112>> >>),
              CardsText(<<bob, SubCommandNames[3], <<122, 97, 112>> >>)}

FailedHpCommand(chat_id) ==
    \E text \in FailedHpTexts :
        /\ Handled("hp", chat_id, text, hpCommand(DB, CONFIG, chat_id, text))
        /\ UNCHANGED <<turnLog, discarded>>

FailedCardsCommand(chat_id) ==
    \E text \in FailedCardsTexts :
        LET res == cardsCommand(DB, CONFIG, CARDS, chat_id, text)
        IN  /\ Handled("cards", chat_id, text, res)
            /\ discarded' = DiscardedAfter(chat_id, res)
            /\ UNCHANGED turnLog

\* roster alice bob, card directory for alice only
InitFailed == InitWith({<<CfgPlain, CatalogPlain>>})

NextFailed ==
    \E chat_id \in Chats :
        \/ FailedHpCommand(chat_id)
        \/ FailedCardsCommand(chat_id)
        \/ EndTurn(chat_id)
        \/ GetCurrentPlayer(chat_id)

\* the commands that cannot be carried out, with /hp set and /cards draw, in a chat
\* whose player order is never set
SpecFailed == InitFailed /\ [][NextFailed]_vars

----------------------------------------------------------------------------
(* Claims about failed commands, checked under SpecFailed.                 *)

\* the update l is /hp or /cards with a player argument that is no roster name
OutsideRoster(l) ==
    /\ l.cmd \in {"hp", "cards"}
    /\ Len(Split(l.text)) >= 2
    /\ \A i \in 1..Len(roster(CONFIG)) : roster(CONFIG)[i] # Split(l.text)[2]

\* C11: a /hp or /cards command whose player argument is not in the roster, with
\* any subcommand and arguments, gets the one text reply "<player> is not one of
\* <roster>", raises nothing and leaves the whole store as it was.
C11_OutsideRosterRejected ==
    [][OutsideRoster(last') =>
           /\ ~last'.raised
           /\ Len(last'.replies) = 1
           /\ last'.replies[1].kind = "text"
           /\ last'.replies[1].msg = "{} is not one of {}"
           /\ DB' = DB]_vars

\* "/hp carol set 1" was handled on a store that holds HP records of alice
C11_Witness ==
    /\ OutsideRoster(last)
    /\ Len(Split(last.text)) = 4
    /\ Split(last.text)[3] \in SetNames
    /\ last.replies = <<Text("{} is not one of {}", << <<carol>>, roster(CONFIG) >>)>>
    /\ HasKey(DB, player_hp_key(last.chat, alice))
    /\ ~HasKey(DB, player_hp_key(last.chat, carol))

\* the update l is one of: /cards p show|draw|discard|flip without a fragment,
\* /hp p set|add|sub without a value, /hp without a player, /endturn or
\* /currentplayer in a chat whose player order is not in the store db
MissingArgument(l, db) ==
    LET params == Split(l.text) IN
    \/ /\ l.cmd = "cards" /\ Len(params) = 3
       /\ \E i \in 1..Len(roster(CONFIG)) : roster(CONFIG)[i] = params[2]
       /\ \E i \in {2, 3, 4, 6} : params[3] = SubCommandNames[i]
    \/ /\ l.cmd = "hp" /\ Len(params) = 3
       /\ \E i \in 1..Len(roster(CONFIG)) : roster(CONFIG)[i] = params[2]
       /\ params[3] \in SetNames \cup AddNames \cup SubNames
    \/ l.cmd = "hp" /\ Len(params) = 1
    \/ l.cmd \in {"endturn", "currentplayer"} /\ ~HasKey(db, player_list_key(l.chat))

\* C12: each of these failed commands ends with a text reply, without an exception
\* leaving the handler, and with the store as it was.
C12_FailedCommandReplies ==
    [][MissingArgument(last', DB) =>
           /\ ~last'.raised
           /\ Len(last'.replies) >= 1
           /\ \A i \in 1..Len(last'.replies) : last'.replies[i].kind = "text"
           /\ DB' = DB]_vars

\* the update l is /hp p, /hp p get, /hp p add v or /hp p sub v for a roster player
\* p and an integer v
ReadsHp(l) ==
    LET params == Split(l.text) IN
    /\ l.cmd = "hp" /\ Len(params) >= 2
    /\ \E i \in 1..Len(roster(CONFIG)) : roster(CONFIG)[i] = params[2]
    /\ \/ Len(params) = 2
       \/ Len(params) >= 3 /\ params[3] = <<103, 101, 116>>
       \/ /\ Len(params) >= 4 /\ IsInt(params[4])
          /\ params[3] \in AddNames \cup SubNames

\* neither HP record of the player is in the store db: nothing deletes one, so the
\* player's HP was never set
HpNeverSet(db, chat_id, player_name) ==
    /\ ~HasKey(db, player_hp_key(chat_id, player_name))
    /\ ~HasKey(db, player_max_hp_key(chat_id, player_name))

\* C13: /hp p get, /hp p add v and /hp p sub v for a roster player whose HP was
\* never set reply "<p> does not have hp set.", raise nothing and write nothing.
C13_NoHpSetReplies ==
    [][(ReadsHp(last') /\ HpNeverSet(DB, last'.chat, Split(last'.text)[2])) =>
           /\ ~last'.raised
           /\ last'.replies = <<Text("{} does not have hp set.",
                                     << <<Split(last'.text)[2]>> >>)>>
           /\ DB' = DB]_vars

\* /hp bob add 1 was answered that way while alice has HP set and bob has none
C13_Witness ==
    /\ last.text = HpText(<<bob, <<97, 100, 100>>, <<49>> >>)
    /\ ReadsHp(last) /\ ~last.raised
    /\ last.replies = <<Text("{} does not have hp set.", << <<bob>> >>)>>
    /\ HpNeverSet(DB, last.chat, bob)
    /\ HasKey(DB, player_hp_key(last.chat, alice))

----------------------------------------------------------------------------
(* Claims about the separation of players, checked under SpecCards.        *)

\* the HP and max-HP records of a player, as the store db holds them
HpRecords(db, chat_id, player_name) ==
    LET keys == {player_hp_key(chat_id, player_name),
                 player_max_hp_key(chat_id, player_name)} \cap DOMAIN db
    IN  [k \in keys |-> db[k]]

\* C14: a /cards command addressed to one roster player changes no HP record and
\* no card listing, under any filter, of another roster player of the chat, also
\* when one name followed by "_" starts the other (bob, bob_x).
C14_PlayersSeparate ==
    [][(last'.cmd = "cards" /\ Len(Split(last'.text)) >= 2) =>
           \A i \in 1..Len(roster(CONFIG)) :
               LET other == roster(CONFIG)[i] IN
               other # Split(last'.text)[2] =>
                   /\ HpRecords(DB', last'.chat, other) = HpRecords(DB, last'.chat, other)
                   /\ \A f \in Filters :
                          getPlayerCards(DB', last'.chat, other, f)
                              = getPlayerCards(DB, last'.chat, other, f)]_vars

----------------------------------------------------------------------------
(* Claims about /cards draw, checked under SpecFailed.                     *)

\* the update l is /cards p draw f for a roster player p with a card directory and
\* a fragment f that none of p's catalog cards contains
DrawsNothing(l) ==
    /\ IsCards(l, 3)
    /\ CardsPlayer(l) \in CardPlayers(CONFIG, CARDS)
    /\ Matching(CARDS[CardsPlayer(l)], CardsFragment(l)) = <<>>

\* C15: /cards p draw f where no catalog card of p contains f sends no reply,
\* raises no exception and leaves the store as it was.
C15_DrawNoMatchSilent ==
    [][DrawsNothing(last') =>
           /\ ~last'.raised
           /\ last'.replies = <<>>
           /\ DB' = DB]_vars

\* the update l is /cards p ... for a roster player p without a card directory
NoDirectory(l) ==
    /\ l.cmd = "cards" /\ Len(Split(l.text)) >= 3
    /\ \E i \in 1..Len(roster(CONFIG)) : roster(CONFIG)[i] = Split(l.text)[2]
    /\ Split(l.text)[2] \notin DOMAIN CARDS

\* C20: for a roster player without a card directory the catalog is the empty
\* sequence: /cards p all replies "<p> has no cards." and /cards p show f and
\* /cards p draw f end without an exception leaving the handler.
C20_NoDirectoryIsEmpty ==
    [][NoDirectory(last') =>
           /\ Split(last'.text)[3] = SubCommandNames[1] =>
                  /\ ~last'.raised
                  /\ last'.replies =
                         <<Text("{} has no cards.",
                                << <<getSpelling(CONFIG, Split(last'.text)[2])>> >>)>>
           /\ (Len(Split(last'.text)) >= 4
                   /\ Split(last'.text)[3] \in {SubCommandNames[2], SubCommandNames[3]}) =>
                  ~last'.raised]_vars

----------------------------------------------------------------------------
(* Claims about /cards flip and /cards discard, checked under SpecCards.   *)

\* the cards of ids that have a status record under (chat_id, player_id) in db
\* matching the filter: the player's hand as the records define it
InHand(db, chat_id, player_id, ids, flipped) ==
    {c \in ids : /\ HasKey(db, card_key(chat_id, player_id, c))
                 /\ CardMatches(db[card_key(chat_id, player_id, c)], flipped)}

\* the catalog cards of a player, as a set
CatalogOf(player_id) == {CARDS[player_id][i] : i \in 1..Len(CARDS[player_id])}

\* the in-hand cards of the player of update l, under the filter, that contain
\* the fragment of l
HandMatches(l, db, flipped) ==
    {c \in InHand(db, l.chat, CardsPlayer(l), CatalogOf(CardsPlayer(l)), flipped) :
        Contains(CardsFragment(l), c)}

\* the keys whose record differs between two stores
ChangedKeys(db1, db2) ==
    {k \in DOMAIN db1 \cup DOMAIN db2 :
        ~(k \in DOMAIN db1 /\ k \in DOMAIN db2 /\ db1[k] = db2[k])}

\* C16: /cards p flip f changes at most one record and adds or removes none; with
\* an unflipped in-hand card containing f one such card becomes flipped and the
\* reply says flipped, whether or not a flipped card contains f too; otherwise
\* with a flipped in-hand card containing f one such card becomes unflipped and
\* the reply says unflipped; otherwise the reply is not-found and the store is
\* as it was.
C16_FlipOneCard ==
    [][(IsCards(last', 6) /\ CardsPlayer(last') \in CardPlayers(CONFIG, CARDS)) =>
           LET p == CardsPlayer(last')
               U == HandMatches(last', DB, "False")
               F == HandMatches(last', DB, "True")
           IN  /\ ~last'.raised
               /\ Cardinality(ChangedKeys(DB, DB')) <= 1
               /\ DOMAIN DB' = DOMAIN DB
               /\ U # {} =>
                      \E c \in U :
                          /\ DB' = Put(DB, card_key(last'.chat, p, c), <<49>>)
                          /\ last'.replies = <<Text("{} flipped {}", << <<p>>, <<c>> >>)>>
               /\ (U = {} /\ F # {}) =>
                      \E c \in F :
                          /\ DB' = Put(DB, card_key(last'.chat, p, c), <<48>>)
                          /\ last'.replies = <<Text("{} unflipped {}", << <<p>>, <<c>> >>)>>
               /\ (U = {} /\ F = {}) =>
                      /\ DB' = DB
                      /\ last'.replies[1].msg = "Could not find {} in {}'s hand {}"]_vars

\* C17: /cards p discard f removes a record only when exactly one in-hand card of
\* p, flipped or not, contains f, and then exactly that card's record; with no
\* such card or with two or more it replies with the hand and the store is as it
\* was.
C17_DiscardExactlyOne ==
    [][(IsCards(last', 4) /\ CardsPlayer(last') \in CardPlayers(CONFIG, CARDS)) =>
           LET p == CardsPlayer(last')
               H == HandMatches(last', DB, "None")
           IN  /\ ~last'.raised
               /\ Cardinality(H) = 1 =>
                      \E c \in H :
                          /\ DB' = Delete(DB, card_key(last'.chat, p, c))
                          /\ last'.replies = Discarded(p, c)
               /\ Cardinality(H) # 1 =>
                      /\ DB' = DB
                      /\ last'.replies =
                             <<CouldNotFindInHand(DB, last'.chat, CardsFragment(last'), p)>>]_vars

----------------------------------------------------------------------------
(* Claims about listCards, checked under SpecStore.                        *)

\* C18: for every chat, player and filter, getPlayerCards yields exactly the card
\* identifiers that have a status record under (chat, player) matching the
\* filter, each once, in lexicographic order, whatever the identifier's bytes.
C18_ListCardsExact ==
    \A chat_id \in Chats, player_id \in StorePlayers, f \in Filters :
        getPlayerCards(DB, chat_id, player_id, f)
            = SortKeys(InHand(DB, chat_id, player_id, StoreCards, f))

----------------------------------------------------------------------------
(* Handlers as coroutines.  Two updates of a chat arrive together; each     *)
(* handler runs until it awaits a send, where the other may run, and goes   *)
(* on when the send has returned.                                           *)

\* the handler the application has registered for the command of update u
Dispatch(db, cfg, cards, chat_id, u) ==
    CASE u.cmd = "endturn"  -> endTurn(db, cfg, chat_id)
      [] u.cmd = "hp"       -> hpCommand(db, cfg, chat_id, u.text)
      [] u.cmd = "defaults" -> setDefaults(db, cfg, chat_id)
      [] u.cmd = "cards"    -> cardsCommand(db, cfg, cards, chat_id, u.text)

\* the updates that may arrive together: /defaults, /endturn, /hp alice add 1,
\* /hp alice sub 1, and /cards alice draw, flip and discard with the fragment zap
AsyncUpdates ==
    {[cmd |-> "defaults", text |-> <<47, 100, 101, 102, 97, 117, 108, 116, 115>>],
     [cmd |-> "endturn", text |-> <<47, 101, 110, 100, 116, 117, 114, 110>>]}
        \cup {[cmd |-> "hp", text |-> HpText(<<alice, sub, <<49>> >>)] :
                 sub \in {<<97, 100, 100>>, <<115, 117, 98>>}}
        \cup {[cmd |-> "cards", text |-> CardsText(<<alice, SubCommandNames[i], <<122, 97, 112>> >>)] :
                 i \in {3, 4, 6}}

\* a handler that has not run yet
NewTask(u) == [cmd |-> u.cmd, text |-> u.text, pc |-> "new", frame |-> Done(EmptyDB, <<>>)]

\* a variant that awaits its sends before it writes: the store it computed from
\* what it read is written when the last send has returned
ResumedWriteAfterSend(db, cfg, cards, chat_id, t) ==
    IF t.pc = "new"
    THEN LET res == Dispatch(db, cfg, cards, chat_id, t)
         IN  [db   |-> IF res.replies = <<>> THEN res.db ELSE db,
              task |-> [t EXCEPT !.pc = IF res.replies = <<>> THEN "done" ELSE "sending",
                                 !.frame = res]]
    ELSE [db   |-> IF Len(t.frame.replies) = 1 THEN t.frame.db ELSE db,
          task |-> [t EXCEPT !.pc = IF Len(t.frame.replies) = 1 THEN "done" ELSE "sending",
                             !.frame.replies = Tail(@)]]

\* one scheduling of the coroutine t.  A new one runs to its first await: in
\* endTurn, setDefaults, hpCommand and, for draw with a match, flip and discard,
\* cardsCommand, every read and write of the store precedes the first awaited
\* send, and what follows a send is a return (or, for draw without a match, the
\* IndexError); the frame keeps what is still to be sent.  A suspended one goes
\* on after its send returned, to the next send or to its end.
Resumed(db, cfg, cards, chat_id, t) ==
    IF t.pc = "new"
    THEN LET res == Dispatch(db, cfg, cards, chat_id, t)
         IN  [db   |-> res.db,
              task |-> [t EXCEPT !.pc = IF res.replies = <<>> THEN "done" ELSE "sending",
                                 !.frame = res]]
    ELSE [db   |-> db,
          task |-> [t EXCEPT !.pc = IF Len(t.frame.replies) = 1 THEN "done" ELSE "sending",
                             !.frame.replies = Tail(@)]]

\* two updates arrive while no handler is in flight
Arrive(chat_id) ==
    /\ tasks.run = <<>>
    /\ \E u1 \in AsyncUpdates, u2 \in AsyncUpdates :
           tasks' = [from |-> DB, run |-> <<NewTask(u1), NewTask(u2)>>]
    /\ UNCHANGED <<DB, CONFIG, CARDS, last, prev, turnLog, discarded>>

\* the event loop runs a handler that has not run yet
Start(chat_id) ==
    /\ \E i \in 1..Len(tasks.run) :
           /\ tasks.run[i].pc = "new"
           /\ LET r == Resumed(DB, CONFIG, CARDS, chat_id, tasks.run[i])
              IN  /\ DB' = r.db
                  /\ tasks' = [tasks EXCEPT !.run[i] = r.task]
    /\ UNCHANGED <<CONFIG, CARDS, last, prev, turnLog, discarded>>

\* a send has returned: the event loop resumes the handler that awaited it
Resume(chat_id) ==
    /\ \E i \in 1..Len(tasks.run) :
           /\ tasks.run[i].pc = "sending"
           /\ LET r == Resumed(DB, CONFIG, CARDS, chat_id, tasks.run[i])
              IN  /\ DB' = r.db
                  /\ tasks' = [tasks EXCEPT !.run[i] = r.task]
    /\ UNCHANGED <<CONFIG, CARDS, last, prev, turnLog, discarded>>

\* both handlers have ended
AllDone == tasks.run # <<>> /\ \A i \in 1..Len(tasks.run) : tasks.run[i].pc = "done"

Settle(chat_id) ==
    /\ AllDone
    /\ tasks' = NoTasks
    /\ UNCHANGED <<DB, CONFIG, CARDS, last, prev, turnLog, discarded>>

InitAsync == InitWith({<<CfgPlain, CatalogPlain>>})

NextAsync ==
    \E chat_id \in Chats :
        \/ Arrive(chat_id)
        \/ Start(chat_id)
        \/ Resume(chat_id)
        \/ Settle(chat_id)

\* pairs of handlers interleaved at their awaited sends
SpecAsync == InitAsync /\ [][NextAsync]_vars

----------------------------------------------------------------------------
(* Claims about interleaved handlers, checked under SpecAsync.             *)

\* the update of task t is /hp add, /hp sub, /endturn, /cards flip or /cards discard
ReadThenWrite(t) ==
    \/ t.cmd = "endturn"
    \/ t.cmd = "hp" /\ Split(t.text)[3] \in AddNames \cup SubNames
    \/ t.cmd = "cards" /\ Split(t.text)[3] \in {SubCommandNames[4], SubCommandNames[6]}

\* the store after the handler of u1 and then the handler of u2 ran, each to its
\* end, on the store db
OneAfterTheOther(db, chat_id, u1, u2) ==
    Dispatch(Dispatch(db, CONFIG, CARDS, chat_id, u1).db, CONFIG, CARDS, chat_id, u2).db

\* C19: when two handlers among /hp add, /hp sub, /endturn, /cards flip and
\* /cards discard have run interleaved at their awaited sends and both have
\* ended, the store is the one that running them one after the other, in one of
\* the two orders, gives from the store their updates arrived on.
C19_InterleavingSerializes ==
    (AllDone /\ ReadThenWrite(tasks.run[1]) /\ ReadThenWrite(tasks.run[2])) =>
        \E chat_id \in Chats :
            \/ DB = OneAfterTheOther(tasks.from, chat_id, tasks.run[1], tasks.run[2])
            \/ DB = OneAfterTheOther(tasks.from, chat_id, tasks.run[2], tasks.run[1])

\* two /hp alice add 1, arrived on HP 0 of 2, are both suspended at their send,
\* and the store holds HP 2
C19_Witness ==
    /\ Len(tasks.run) = 2
    /\ \A i \in 1..2 :
           /\ tasks.run[i].pc = "sending"
           /\ tasks.run[i].text = HpText(<<alice, <<97, 100, 100>>, <<49>> >>)
    /\ \E chat_id \in Chats :
           /\ HpReadable(tasks.from, chat_id, alice)
           /\ getPlayerHp(tasks.from, chat_id, alice) = 0
           /\ getPlayerHp(DB, chat_id, alice) = 2

----------------------------------------------------------------------------
(* Claims about the pairing of the HP records, checked under SpecHp.       *)

\* the players that have a record in db whose key starts with prefix (the key
\* player_hp_key or player_max_hp_key gives for the empty name): the rest of
\* each such key
PlayersWith(db, prefix) ==
    {RemovePrefix(k, prefix) : k \in {x \in DOMAIN db : IsPrefix(prefix, x)}}

\* C21: for every (chat, player) the current-HP record exists exactly when the
\* max-HP record exists, and /hp p add v for a roster player and an integer v
\* never raises: its read of the current HP after the max-HP read succeeded finds
\* the record.
C21_HpRecordsPaired ==
    /\ [](\A chat_id \in Chats :
              PlayersWith(DB, player_hp_key(chat_id, <<>>))
                  = PlayersWith(DB, player_max_hp_key(chat_id, <<>>)))
    /\ [][IsHp(last', AddNames) =>
              /\ ~last'.raised
              /\ HasKey(DB, player_max_hp_key(last'.chat, HpPlayer(last'))) =>
                     /\ HasKey(DB, player_hp_key(last'.chat, HpPlayer(last')))
                     /\ last'.replies[1].msg = "{}'s HP set to {}."]_vars

\* /hp alice add v was answered with the new HP while bob, whom only /defaults
\* gave HP, has both records too
C21_Witness ==
    /\ IsHp(last, AddNames) /\ ~last.raised
    /\ HpPlayer(last) = alice
    /\ last.replies[1].msg = "{}'s HP set to {}."
    /\ PlayersWith(DB, player_hp_key(last.chat, <<>>)) = {alice, bob}
    /\ PlayersWith(DB, player_max_hp_key(last.chat, <<>>)) = {alice, bob}

====
